---- MODULE Spec2Model ----
(***************************************************************************)
(* VolumeCalculator (src/unnamed/part_000): the volume of a triangle mesh  *)
(* up to a height, by slicing it with horizontal planes and integrating    *)
(* the cross-section areas with the trapezoidal rule.                      *)
(*                                                                         *)
(* Numbers.  A JavaScript number is modelled as a pair <<n, d>>: the exact *)
(* rational n/d in lowest terms with d > 0, or one of the three special    *)
(* values NaN = <<0,0>>, +Infinity = <<1,0>>, -Infinity = <<-1,0>>.        *)
(* Arithmetic follows IEEE 754 for the special values (0/0 = NaN,          *)
(* 1/0 = Infinity, 0*Infinity = NaN, every comparison with NaN is false)   *)
(* and is exact on the finite ones: binary rounding and the sign of zero   *)
(* are not modelled.                                                       *)
(***************************************************************************)
EXTENDS Integers, Sequences, FiniteSets, TLC

----------------------------------------------------------------------------
(* Numbers *)

Abs(k) == IF k < 0 THEN -k ELSE k

Sign(k) == IF k < 0 THEN -1 ELSE IF k > 0 THEN 1 ELSE 0

RECURSIVE GCD(_, _)
GCD(a, b) == IF b = 0 THEN a ELSE GCD(b, a % b)

\* The number n/d, d # 0, in lowest terms with a positive denominator.
Rat(n, d) ==
    LET g == GCD(Abs(n), Abs(d))
    IN  <<Sign(d) * (n \div g), Abs(d) \div g>>

Num(k) == <<k, 1>>
Zero == <<0, 1>>
NaN == <<0, 0>>
PosInf == <<1, 0>>
NegInf == <<-1, 0>>

IsNaN(a) == a = NaN
IsFinite(a) == a[2] # 0
IsInf(a) == a[2] = 0 /\ a[1] # 0

Neg(a) == <<-a[1], a[2]>>

Add(a, b) ==
    IF IsNaN(a) \/ IsNaN(b) THEN NaN
    ELSE IF IsInf(a) /\ IsInf(b) THEN (IF a = b THEN a ELSE NaN)
    ELSE IF IsInf(a) THEN a
    ELSE IF IsInf(b) THEN b
    ELSE LET g == GCD(a[2], b[2])
         IN  Rat(a[1] * (b[2] \div g) + b[1] * (a[2] \div g), (a[2] \div g) * b[2])

Sub(a, b) == Add(a, Neg(b))

Mul(a, b) ==
    IF IsNaN(a) \/ IsNaN(b) THEN NaN
    ELSE IF IsInf(a) \/ IsInf(b)
         THEN (IF a[1] = 0 \/ b[1] = 0 THEN NaN
               ELSE <<Sign(a[1]) * Sign(b[1]), 0>>)
    ELSE Rat(a[1] * b[1], a[2] * b[2])

Div(a, b) ==
    IF IsNaN(a) \/ IsNaN(b) THEN NaN
    ELSE IF IsInf(b) THEN (IF IsInf(a) THEN NaN ELSE Zero)
    ELSE IF IsInf(a) THEN <<a[1] * (IF b[1] < 0 THEN -1 ELSE 1), 0>>
    ELSE IF b[1] = 0 THEN (IF a[1] = 0 THEN NaN ELSE <<Sign(a[1]), 0>>)
    ELSE Rat(a[1] * b[2], a[2] * b[1])

\* a < b, a <= b, a >= b as JavaScript evaluates them: false when either is NaN.
Lt(a, b) ==
    /\ ~IsNaN(a) /\ ~IsNaN(b)
    /\ IF IsInf(a) \/ IsInf(b)
       THEN a # b /\ (a = NegInf \/ b = PosInf)
       ELSE LET g == GCD(a[2], b[2])
            IN  a[1] * (b[2] \div g) < b[1] * (a[2] \div g)

Leq(a, b) == ~IsNaN(a) /\ ~IsNaN(b) /\ (a = b \/ Lt(a, b))

Geq(a, b) == Leq(b, a)

\* Math.min(a, b)
MathMin(a, b) == IF IsNaN(a) \/ IsNaN(b) THEN NaN ELSE IF Lt(b, a) THEN b ELSE a

\* Math.abs(a)
MathAbs(a) == <<Abs(a[1]), a[2]>>

----------------------------------------------------------------------------
(* Vector3 and the mesh *)

Vector3(x, y, z) == [x |-> x, y |-> y, z |-> z]

\* Vector3.add
VAdd(a, b) == Vector3(Add(a.x, b.x), Add(a.y, b.y), Add(a.z, b.z))

\* Vector3.scale
VScale(a, s) == Vector3(Mul(a.x, s), Mul(a.y, s), Mul(a.z, s))

\* What getVerticesData / getIndices hand back: null, or the array.
Null == [isNull |-> TRUE, data |-> <<>>]
Array(seq) == [isNull |-> FALSE, data |-> seq]

\* mesh.getVerticesData("position")
GetVerticesData(mesh) == mesh.positions

\* mesh.getIndices()
GetIndices(mesh) == mesh.indices

\* The vertex the index array names at offset k (0-based, as in the source).
VertexAt(positions, indices, k) ==
    LET idx == indices[k + 1]
    IN  Vector3(positions[idx * 3 + 1], positions[idx * 3 + 2], positions[idx * 3 + 3])

----------------------------------------------------------------------------
(* findIntersectionPoints *)

\* Only the edges that rise through the plane are taken.
EdgeCrossesUpward(start, end, height) ==
    Leq(start.y, height) /\ Geq(end.y, height)

\* The test of one edge against the plane: both comparisons are inclusive.
EdgeCrosses(start, end, height) ==
    \/ Leq(start.y, height) /\ Geq(end.y, height)
    \/ Geq(start.y, height) /\ Leq(end.y, height)

\* The point the edge contributes: t is 0/0 = NaN for an edge lying in the plane.
EdgePoint(start, end, height) ==
    LET t == Div(Sub(height, start.y), Sub(end.y, start.y))
        x == Add(start.x, Mul(t, Sub(end.x, start.x)))
        z == Add(start.z, Mul(t, Sub(end.z, start.z)))
    IN  Vector3(x, height, z)

\* One edge of the forEach: the accumulator after it.
PushEdge(start, end, height, intersectionPoints) ==
    IF EdgeCrosses(start, end, height)
    THEN Append(intersectionPoints, EdgePoint(start, end, height))
    ELSE intersectionPoints

FindIntersectionPoints(v1, v2, v3, height, intersectionPoints) ==
    PushEdge(v3, v1, height,
        PushEdge(v2, v3, height,
            PushEdge(v1, v2, height, intersectionPoints)))

----------------------------------------------------------------------------
(* removeDuplicatePoints *)

FractionDigits == 6

RECURSIVE Pow10(_)
Pow10(k) == IF k = 0 THEN 1 ELSE 10 * Pow10(k - 1)

\* <<floor(m * 10^k / d), the remainder>>, digit by digit.
RECURSIVE LongDivision(_, _, _)
LongDivision(m, d, k) ==
    IF k = 0 THEN <<m \div d, m % d>>
    ELSE LET p == LongDivision(m, d, k - 1)
         IN  <<p[1] * 10 + ((p[2] * 10) \div d), (p[2] * 10) % d>>

\* Number.prototype.toFixed(digits): the sign ("-" for every x < 0, also when all
\* the digits are 0) and the magnitude rounded to `digits` decimals, half up, as
\* the integer of its digits. NaN and the infinities print as their names.
ToFixed(a, digits) ==
    IF IsNaN(a) THEN <<"NaN", 0>>
    ELSE IF a = PosInf THEN <<"Infinity", 0>>
    ELSE IF a = NegInf THEN <<"-Infinity", 0>>
    ELSE LET p == LongDivision(Abs(a[1]), a[2], digits)
             n == p[1] + (IF 2 * p[2] >= a[2] THEN 1 ELSE 0)
         IN  <<IF a[1] < 0 THEN "-" ELSE "", n>>

\* The key built on the wrong axis: x and the elevation y.
PointKeyWrongAxis(point) == <<ToFixed(point.x, FractionDigits), ToFixed(point.y, FractionDigits)>>

\* `${point.x.toFixed(6)}:${point.z.toFixed(6)}`
PointKey(point) == <<ToFixed(point.x, FractionDigits), ToFixed(point.z, FractionDigits)>>

\* Map.prototype.set on a map kept as its entries in insertion order: an
\* existing key keeps its place and takes the new value.
MapSet(entries, key, value) ==
    IF \E k \in 1..Len(entries) : entries[k][1] = key
    THEN [k \in 1..Len(entries) |->
            IF entries[k][1] = key THEN <<key, value>> ELSE entries[k]]
    ELSE Append(entries, <<key, value>>)

RECURSIVE UniquePoints(_, _)
UniquePoints(points, entries) ==
    IF points = <<>> THEN entries
    ELSE UniquePoints(Tail(points), MapSet(entries, PointKey(Head(points)), Head(points)))

RemoveDuplicatePoints(points) ==
    LET entries == UniquePoints(points, <<>>)
    IN  [k \in 1..Len(entries) |-> entries[k][2]]

----------------------------------------------------------------------------
(* sortPointsByAngle *)

RECURSIVE SumPoints(_, _)
SumPoints(points, acc) ==
    IF points = <<>> THEN acc ELSE SumPoints(Tail(points), VAdd(acc, Head(points)))

\* points.reduce(add, (0,0,0)).scale(1 / points.length)
Center(points) ==
    VScale(SumPoints(points, Vector3(Zero, Zero, Zero)), Div(Num(1), Num(Len(points))))

\* Where Math.atan2(dz, dx) lies in (-pi, pi]: 0 for (-pi, 0), 1 for the angle 0
\* (also atan2(0, 0)), 2 for (0, pi), 3 for the angle pi.
AngleSector(dz, dx) ==
    IF dz[1] < 0 THEN 0
    ELSE IF dz[1] > 0 THEN 2
    ELSE IF dx[1] >= 0 THEN 1 ELSE 3

\* The sign of angleA - angleB, the comparator's result; 0 when it is NaN, which
\* is how Array.prototype.sort reads a NaN.
CompareAngle(a, b, center) ==
    LET az == Sub(a.z, center.z)
        ax == Sub(a.x, center.x)
        bz == Sub(b.z, center.z)
        bx == Sub(b.x, center.x)
        sa == AngleSector(az, ax)
        sb == AngleSector(bz, bx)
        cross == Sub(Mul(ax, bz), Mul(az, bx))
    IN  IF IsNaN(az) \/ IsNaN(ax) \/ IsNaN(bz) \/ IsNaN(bx) THEN 0
        ELSE IF sa # sb THEN Sign(sa - sb)
        ELSE IF sa \in {1, 3} THEN 0
        ELSE -Sign(cross[1])

\* Array.prototype.sort is stable: insert each point after the points that do
\* not compare greater than it.
RECURSIVE InsertByAngle(_, _, _)
InsertByAngle(sorted, p, center) ==
    IF sorted = <<>> THEN <<p>>
    ELSE LET last == sorted[Len(sorted)]
         IN  IF CompareAngle(last, p, center) <= 0
             THEN Append(sorted, p)
             ELSE Append(InsertByAngle(SubSeq(sorted, 1, Len(sorted) - 1), p, center), last)

RECURSIVE StableSort(_, _, _)
StableSort(points, sorted, center) ==
    IF points = <<>> THEN sorted
    ELSE StableSort(Tail(points), InsertByAngle(sorted, Head(points), center), center)

SortPointsByAngle(points) == StableSort(points, <<>>, Center(points))

----------------------------------------------------------------------------
(* calculatePolygonArea *)

\* The ring is not closed: the pair (last, first) is left out.
RECURSIVE ShoelaceOpen(_, _, _)
ShoelaceOpen(points, i, area) ==
    IF i >= Len(points) - 1 THEN area
    ELSE LET j == i + 1
             a1 == Add(area, Mul(points[i + 1].x, points[j + 1].z))
             a2 == Sub(a1, Mul(points[j + 1].x, points[i + 1].z))
         IN  ShoelaceOpen(points, i + 1, a2)

\* The loop's accumulator from index i (0-based) on.
RECURSIVE Shoelace(_, _, _)
Shoelace(points, i, area) ==
    IF i >= Len(points) THEN area
    ELSE LET j == (i + 1) % Len(points)
             a1 == Add(area, Mul(points[i + 1].x, points[j + 1].z))
             a2 == Sub(a1, Mul(points[j + 1].x, points[i + 1].z))
         IN  Shoelace(points, i + 1, a2)

CalculatePolygonArea(points) ==
    IF Len(points) < 3 THEN Zero
    ELSE Div(MathAbs(Shoelace(points, 0, Zero)), Num(2))

----------------------------------------------------------------------------
(* calculateCrossSectionArea *)

\* The loop over the triangles from index offset i on.
RECURSIVE AllIntersectionPoints(_, _, _, _, _)
AllIntersectionPoints(positions, indices, height, i, intersectionPoints) ==
    IF i >= Len(indices) THEN intersectionPoints
    ELSE AllIntersectionPoints(positions, indices, height, i + 3,
            FindIntersectionPoints(VertexAt(positions, indices, i),
                                   VertexAt(positions, indices, i + 1),
                                   VertexAt(positions, indices, i + 2),
                                   height, intersectionPoints))

\* What a caller is left with when a call throws a TypeError; no number equals it.
TypeError == <<0, -1>>

\* The index check forgotten: indices.length of null throws.
CalculateCrossSectionAreaUnguarded(mesh, height) ==
    LET positions == GetVerticesData(mesh)
        indices == GetIndices(mesh)
    IN  IF positions.isNull THEN Zero
        ELSE IF indices.isNull THEN TypeError
        ELSE CalculatePolygonArea(
                SortPointsByAngle(
                    RemoveDuplicatePoints(
                        AllIntersectionPoints(positions.data, indices.data, height, 0, <<>>))))

CalculateCrossSectionArea(mesh, height) ==
    LET positions == GetVerticesData(mesh)
        indices == GetIndices(mesh)
    IN  IF positions.isNull \/ indices.isNull THEN Zero
        ELSE CalculatePolygonArea(
                SortPointsByAngle(
                    RemoveDuplicatePoints(
                        AllIntersectionPoints(positions.data, indices.data, height, 0, <<>>))))

----------------------------------------------------------------------------
(* The meshes and the inputs of the model *)

MaxSlices == 3

\* A flat position array from integer vertex triples.
RECURSIVE Flatten(_)
Flatten(vertices) ==
    IF vertices = <<>> THEN <<>>
    ELSE <<Num(Head(vertices)[1]), Num(Head(vertices)[2]), Num(Head(vertices)[3])>>
            \o Flatten(Tail(vertices))

RECURSIVE MinOf(_, _)
MinOf(ys, m) ==
    IF ys = <<>> THEN m ELSE MinOf(Tail(ys), IF Lt(Head(ys), m) THEN Head(ys) ELSE m)

RECURSIVE MaxOf(_, _)
MaxOf(ys, m) ==
    IF ys = <<>> THEN m ELSE MaxOf(Tail(ys), IF Lt(m, Head(ys)) THEN Head(ys) ELSE m)

Elevations(data) == [k \in 1..(Len(data) \div 3) |-> data[3 * k - 1]]

\* boundingBox.minimumWorld.y and .maximumWorld.y of a mesh with vertices (the
\* world matrix is the identity): the least and the greatest vertex elevation.
BoundingBox(data) ==
    [minimumWorld |-> MinOf(Elevations(data), data[2]),
     maximumWorld |-> MaxOf(Elevations(data), data[2])]

MeshOf(vertices, indices) ==
    [positions |-> Array(Flatten(vertices)),
     indices |-> Array(indices),
     boundingBox |-> BoundingBox(Flatten(vertices))]

\* A tetrahedron whose four vertices lie at four different elevations: no edge is
\* horizontal.
Tetrahedron ==
    MeshOf(<< <<0, 0, 0>>, <<3, 1, 0>>, <<0, 3, 3>>, <<-3, 4, -3>> >>,
           <<0, 1, 2,  0, 2, 3,  0, 3, 1,  1, 2, 3>>)

\* A square pyramid standing on its base: the base edges are horizontal at the
\* mesh's minimum elevation.
Pyramid ==
    MeshOf(<< <<-1, 0, -1>>, <<1, 0, -1>>, <<1, 0, 1>>, <<-1, 0, 1>>, <<0, 4, 0>> >>,
           <<0, 1, 4,  1, 2, 4,  2, 3, 4,  3, 0, 4,  0, 1, 2,  0, 2, 3>>)

\* A square pyramid hanging from its base: the horizontal edges are at the top.
Funnel ==
    MeshOf(<< <<-1, 4, -1>>, <<1, 4, -1>>, <<1, 4, 1>>, <<-1, 4, 1>>, <<0, 0, 0>> >>,
           <<0, 1, 4,  1, 2, 4,  2, 3, 4,  3, 0, 4>>)

\* One triangle whose upper edge is horizontal.
Fin ==
    MeshOf(<< <<0, 0, 0>>, <<1, 2, 0>>, <<3, 2, 2>> >>, <<0, 1, 2>>)

\* A skew prism between elevations 1 and 3 with no horizontal edge on an
\* evaluated plane other than its ends; vertices that no triangle uses widen the
\* bounding box.
Wedge ==
    MeshOf(<< <<0, 0, 0>>, <<2, 1, 0>>, <<0, 2, 2>>, <<2, 4, 2>>, <<-2, 5, 0>> >>,
           <<0, 1, 2,  1, 2, 3,  0, 2, 3,  0, 1, 3>>)

\* Meshes without geometry data: getVerticesData or getIndices gives null.
NoPositions ==
    [positions |-> Null, indices |-> Array(<<0, 1, 2>>),
     boundingBox |-> [minimumWorld |-> Zero, maximumWorld |-> Zero]]

NoIndices ==
    [positions |-> Array(Flatten(<< <<0, 0, 0>>, <<1, 2, 0>>, <<3, 2, 2>> >>)),
     indices |-> Null,
     boundingBox |-> [minimumWorld |-> Zero, maximumWorld |-> Num(2)]]

NoGeometry ==
    [positions |-> Null, indices |-> Null,
     boundingBox |-> [minimumWorld |-> Zero, maximumWorld |-> Zero]]

\* Vertices and an empty index array.
EmptyIndices ==
    MeshOf(<< <<0, 0, 0>>, <<1, 2, 0>>, <<3, 2, 2>> >>, <<>>)

\* Empty arrays: the bounding box is whatever the engine keeps for a mesh with no
\* vertex, the zero box or a box past every elevation.
EmptyArrays ==
    { [positions |-> Array(<<>>), indices |-> Array(<<>>), boundingBox |-> b] :
        b \in { [minimumWorld |-> Zero, maximumWorld |-> Zero],
                [minimumWorld |-> Num(9), maximumWorld |-> Num(-9)] } }

Meshes ==
    {Tetrahedron, Pyramid, Funnel, Fin, Wedge,
     NoPositions, NoIndices, NoGeometry, EmptyIndices} \cup EmptyArrays

\* The target heights a caller asks for.
Heights == {Num(-1), Zero, Num(2), Num(4), Num(5)}

HasData(m) == ~GetVerticesData(m).isNull /\ ~GetIndices(m).isNull

----------------------------------------------------------------------------
(* State *)

VARIABLES
    pc,                 \* where the call under way stands
    mesh, slices,       \* the mesh and the slice count of every call
    height,             \* the height of the call under way
    minY, maxY, sliceHeight, i, totalVolume,   \* calculateVolumeUpToHeight's locals
    bands,              \* the slices evaluated by the call under way
    result,             \* what the call returned
    volumes,            \* the caller's record: <<height, volume>> of the calls made
    tri, plane, intersectionPoints,            \* findIntersectionPoints' arguments
    points, uniquePoints,                      \* removeDuplicatePoints' argument and result
    areas                                      \* calculatePolygonArea's results

volumeVars == <<mesh, slices, height, minY, maxY, sliceHeight, i, totalVolume,
                bands, result, volumes>>
finderVars == <<tri, plane, intersectionPoints>>
polygonVars == <<points, uniquePoints, areas>>
vars == <<pc, volumeVars, finderVars, polygonVars>>

IdleVolume ==
    /\ height = Zero /\ minY = Zero /\ maxY = Zero /\ sliceHeight = Zero
    /\ i = 0 /\ totalVolume = Zero /\ bands = <<>> /\ result = Zero
    /\ volumes = {}

IdleFinder == tri = <<>> /\ plane = Zero /\ intersectionPoints = <<>>

IdlePolygon == points = <<>> /\ uniquePoints = <<>> /\ areas = <<>>

----------------------------------------------------------------------------
(* calculateVolumeUpToHeight, called on one mesh for one height after another *)

Init ==
    /\ pc = "idle"
    /\ mesh \in Meshes
    /\ slices \in 1..MaxSlices
    /\ IdleVolume /\ IdleFinder /\ IdlePolygon

\* The caller calls with a height it has not asked for yet.
Call(h) ==
    /\ pc = "idle"
    /\ \A v \in volumes : v[1] # h
    /\ pc' = "called"
    /\ height' = h
    /\ minY' = Zero /\ maxY' = Zero /\ sliceHeight' = Zero
    /\ i' = 0 /\ totalVolume' = Zero /\ bands' = <<>> /\ result' = Zero
    /\ UNCHANGED <<mesh, slices, volumes, finderVars, polygonVars>>

\* if (!positions || !indices) return 0;
ReturnMissingData ==
    /\ pc = "called"
    /\ ~HasData(mesh)
    /\ result' = Zero
    /\ pc' = "done"
    /\ UNCHANGED <<mesh, slices, height, minY, maxY, sliceHeight, i, totalVolume,
                   bands, volumes, finderVars, polygonVars>>

\* A slip of the bound: heights just under the mesh's bottom are let through.
BelowMinimumOffByOne(h, lowest) == Lt(h, Sub(lowest, Num(1)))

BelowMinimum(h, lowest) == Lt(h, lowest)

\* The height is taken as it is, not clamped to the mesh's top.
EffectiveMaxUnclamped(h, top) == h

\* Math.min(height, boundingBox.maximumWorld.y)
EffectiveMax(h, top) == MathMin(h, top)

\* if (height < minY) return 0;
ReturnBelowMinimum ==
    /\ pc = "called"
    /\ HasData(mesh)
    /\ BelowMinimum(height, mesh.boundingBox.minimumWorld)
    /\ minY' = mesh.boundingBox.minimumWorld
    /\ maxY' = EffectiveMax(height, mesh.boundingBox.maximumWorld)
    /\ result' = Zero
    /\ pc' = "done"
    /\ UNCHANGED <<mesh, slices, height, sliceHeight, i, totalVolume,
                   bands, volumes, finderVars, polygonVars>>

\* The bounds, the slice height and the loop's start.
StartSlicing ==
    /\ pc = "called"
    /\ HasData(mesh)
    /\ ~BelowMinimum(height, mesh.boundingBox.minimumWorld)
    /\ minY' = mesh.boundingBox.minimumWorld
    /\ maxY' = EffectiveMax(height, mesh.boundingBox.maximumWorld)
    /\ sliceHeight' = Div(Sub(maxY', minY'), Num(slices))
    /\ totalVolume' = Zero
    /\ i' = 0
    /\ pc' = "loop"
    /\ UNCHANGED <<mesh, slices, height, bands, result, volumes, finderVars, polygonVars>>

\* The loop runs once too often.
MoreSlicesInclusive(k, n) == k <= n

\* i < slices
MoreSlices(k, n) == k < n

NextHeight(currentHeight, h) == Add(currentHeight, h)

\* One pass of the loop: the two cross-sections and the trapezoid between them.
Slice ==
    /\ pc = "loop"
    /\ MoreSlices(i, slices)
    /\ LET currentHeight == Add(minY, Mul(Num(i), sliceHeight))
           nextHeight == NextHeight(currentHeight, sliceHeight)
           area1 == CalculateCrossSectionArea(mesh, currentHeight)
           area2 == CalculateCrossSectionArea(mesh, nextHeight)
           sliceVolume == Div(Mul(sliceHeight, Add(area1, area2)), Num(2))
       IN  /\ totalVolume' = Add(totalVolume, sliceVolume)
           /\ bands' = Append(bands, [lo |-> currentHeight, hi |-> nextHeight,
                                      area1 |-> area1, area2 |-> area2])
    /\ i' = i + 1
    /\ UNCHANGED <<pc, mesh, slices, height, minY, maxY, sliceHeight, result,
                   volumes, finderVars, polygonVars>>

\* return totalVolume;
ReturnTotal ==
    /\ pc = "loop"
    /\ ~MoreSlices(i, slices)
    /\ result' = totalVolume
    /\ pc' = "done"
    /\ UNCHANGED <<mesh, slices, height, minY, maxY, sliceHeight, i, totalVolume,
                   bands, volumes, finderVars, polygonVars>>

\* The caller keeps the volume it was given.
Record ==
    /\ pc = "done"
    /\ volumes' = volumes \cup {<<height, result>>}
    /\ pc' = "idle"
    /\ UNCHANGED <<mesh, slices, height, minY, maxY, sliceHeight, i, totalVolume,
                   bands, result, finderVars, polygonVars>>

Next ==
    \/ \E h \in Heights : Call(h)
    \/ ReturnMissingData
    \/ ReturnBelowMinimum
    \/ StartSlicing
    \/ Slice
    \/ ReturnTotal
    \/ Record

Spec == Init /\ [][Next]_vars

----------------------------------------------------------------------------
(* Properties of calculateVolumeUpToHeight *)

MeshMinimum == mesh.boundingBox.minimumWorld
MeshMaximum == mesh.boundingBox.maximumWorld

\* The triangles of a mesh with data, as triples of vertices.
Triangles(m) ==
    { << VertexAt(m.positions.data, m.indices.data, 3 * t),
         VertexAt(m.positions.data, m.indices.data, 3 * t + 1),
         VertexAt(m.positions.data, m.indices.data, 3 * t + 2) >> :
        t \in 0..((Len(m.indices.data) \div 3) - 1) }

\* A triangle has an edge lying in the plane at elevation e.
HasEdgeInPlane(m, e) ==
    \E t \in Triangles(m) : \E a, b \in 1..3 : a # b /\ t[a].y = e /\ t[b].y = e

\* C1: with a triangle edge lying in an evaluated cutting plane, no cross-section
\* area and no returned volume is not-a-number: every area of a band is a finite
\* number, and the volume returned is finite and at least 0.
C1_NoNaNOnHorizontalEdge ==
    /\ \A k \in 1..Len(bands) :
          (HasEdgeInPlane(mesh, bands[k].lo) \/ HasEdgeInPlane(mesh, bands[k].hi))
             => IsFinite(bands[k].area1) /\ IsFinite(bands[k].area2)
    /\ (pc = "done" /\ \E k \in 1..Len(bands) :
            HasEdgeInPlane(mesh, bands[k].lo) \/ HasEdgeInPlane(mesh, bands[k].hi))
          => IsFinite(result) /\ Geq(result, Zero)

\* C2: the volume never decreases as the target height grows: of two recorded
\* calls on the same mesh with the same slice count, the one with the greater
\* height did not return less. (A not-a-number volume is not counted as less.)
C2_MonotoneInHeight ==
    \A a, b \in volumes : Leq(a[1], b[1]) => ~Lt(b[2], a[2])

\* C3: every call with a height above the mesh's top returned what the call with
\* the height at the mesh's top returned.
C3_ClampedAtTop ==
    \A a, b \in volumes :
        (HasData(mesh) /\ Lt(MeshMaximum, a[1]) /\ b[1] = MeshMaximum) => a[2] = b[2]

C3_Witness ==
    \E a, b \in volumes :
        /\ HasData(mesh) /\ Lt(MeshMaximum, a[1]) /\ b[1] = MeshMaximum
        /\ IsFinite(b[2]) /\ b[2] # Zero

\* C4: a call on a mesh with data whose height is below the mesh's bottom returns
\* exactly 0 and has evaluated no cross-section.
C4_BelowMinimumIsZero ==
    (pc = "done" /\ HasData(mesh) /\ Lt(height, MeshMinimum))
        => result = Zero /\ bands = <<>>

C4_Witness ==
    /\ pc = "done" /\ HasData(mesh) /\ Lt(height, MeshMinimum)
    /\ Triangles(mesh) # {}

\* No position data or no index data: null, or an empty array.
MissingGeometry(m) ==
    \/ GetVerticesData(m).isNull \/ GetIndices(m).isNull
    \/ GetVerticesData(m).data = <<>> \/ GetIndices(m).data = <<>>

\* C5: on a mesh with no position data or no index data every call returns 0, and
\* the cross-section area is 0 at every elevation; nothing throws.
C5_MissingDataIsZero ==
    MissingGeometry(mesh) =>
        /\ pc = "done" => result = Zero
        /\ \A k \in 1..Len(bands) : bands[k].area1 = Zero /\ bands[k].area2 = Zero
        /\ \A e \in Heights : CalculateCrossSectionArea(mesh, e) = Zero

C5_Witness ==
    /\ pc = "done"
    /\ GetIndices(mesh).isNull
    /\ ~GetVerticesData(mesh).isNull

\* The plane at elevation e crosses no triangle, and the vertices it touches lie
\* at no more than two places: it misses the mesh, or touches it at one vertex or
\* along one edge.
TouchesAtMostAnEdge(m, e) ==
    /\ \A t \in Triangles(m) :
          ~\E a, b \in 1..3 : Lt(t[a].y, e) /\ Lt(e, t[b].y)
    /\ Cardinality({ <<v.x, v.z>> :
                        v \in { w \in UNION { {u[1], u[2], u[3]} : u \in Triangles(m) } :
                                    w.y = e } }) <= 2

\* C9: a cross-section the plane only touches, at a vertex or along an edge, or
\* misses, has area exactly 0.
C9_TouchingPlaneIsZero ==
    \A k \in 1..Len(bands) :
        /\ TouchesAtMostAnEdge(mesh, bands[k].lo) => bands[k].area1 = Zero
        /\ TouchesAtMostAnEdge(mesh, bands[k].hi) => bands[k].area2 = Zero

\* The sum over bands k..n of h * (area(lo) + area(hi)) / 2, band k being
\* [lowest + (k-1)h, lowest + kh].
RECURSIVE TrapezoidSum(_, _, _, _, _)
TrapezoidSum(m, lowest, h, n, k) ==
    IF k > n THEN Zero
    ELSE LET lo == Add(lowest, Mul(Num(k - 1), h))
             hi == Add(lowest, Mul(Num(k), h))
             band == Div(Mul(h, Add(CalculateCrossSectionArea(m, lo),
                                    CalculateCrossSectionArea(m, hi))), Num(2))
         IN  Add(band, TrapezoidSum(m, lowest, h, n, k + 1))

\* C10: a call that reaches the loop has cut [minimum, effective maximum] into
\* exactly `slices` bands of the same height h >= 0, the first starting at the
\* minimum, each starting where the one before ends, the last ending at the
\* effective maximum, and returns the sum of the bands' trapezoids.
C10_TrapezoidalBands ==
    (pc = "done" /\ HasData(mesh) /\ Geq(height, MeshMinimum)) =>
        LET top == IF Lt(MeshMaximum, height) THEN MeshMaximum ELSE height
            h == Div(Sub(top, MeshMinimum), Num(slices))
        IN  /\ Len(bands) = slices
            /\ Geq(h, Zero)
            /\ bands[1].lo = MeshMinimum
            /\ bands[slices].hi = top
            /\ \A k \in 1..slices :
                  /\ Sub(bands[k].hi, bands[k].lo) = h
                  /\ bands[k].lo = Add(MeshMinimum, Mul(Num(k - 1), h))
                  /\ k < slices => bands[k].hi = bands[k + 1].lo
            /\ result = TrapezoidSum(mesh, MeshMinimum, h, slices, 1)

C10_Witness ==
    /\ pc = "done" /\ HasData(mesh) /\ Geq(height, MeshMinimum)
    /\ slices >= 2
    /\ Len(bands) = slices
    /\ IsFinite(result) /\ result # Zero
    /\ Lt(height, MeshMaximum)

----------------------------------------------------------------------------
(* findIntersectionPoints on one triangle *)

MaxCoord == 2

\* The vertices a triangle is made of and the planes it is cut by.
TriangleVertices ==
    { Vector3(Num(x), Num(y), Num(x + y)) : x \in 0..1, y \in 0..MaxCoord }

Planes == { Num(y) : y \in 0..MaxCoord } \cup { Rat(1, 2) }

\* What the accumulator holds before the call.
Accumulators == { <<>>, <<Vector3(Num(7), Zero, Num(7))>> }

InitTriangle ==
    /\ pc = "find"
    /\ tri \in TriangleVertices \X TriangleVertices \X TriangleVertices
    /\ plane \in Planes
    /\ intersectionPoints \in Accumulators
    /\ mesh = NoGeometry /\ slices = 1
    /\ IdleVolume /\ IdlePolygon

Find ==
    /\ pc = "find"
    /\ intersectionPoints' =
          FindIntersectionPoints(tri[1], tri[2], tri[3], plane, intersectionPoints)
    /\ pc' = "found"
    /\ UNCHANGED <<tri, plane, volumeVars, polygonVars>>

NextTriangle == Find

SpecTriangle == InitTriangle /\ [][NextTriangle]_vars

\* The middle one of a triangle's three vertex elevations.
MedianElevation(t) ==
    CHOOSE m \in {t[1].y, t[2].y, t[3].y} :
        \E a, b, c \in 1..3 :
            /\ {a, b, c} = 1..3
            /\ Leq(t[a].y, t[b].y) /\ Leq(t[b].y, t[c].y)
            /\ m = t[b].y

Appended == Len(intersectionPoints') - Len(intersectionPoints)

\* C6 as stated: one call appends between 0 and 2 points, never 3.
C6_AtMostTwoPoints ==
    [][pc = "find" => Appended \in 0..2]_vars

\* C6, amended: one call leaves the accumulator's points in place and appends 0,
\* 2 or 3 points, each at the plane's elevation: none when the plane is outside
\* the triangle's elevation range, 3 when the plane is at the middle one of the
\* three vertex elevations, and 2 otherwise.
C6_ZeroTwoOrThreePoints ==
    [][pc = "find" =>
          /\ SubSeq(intersectionPoints', 1, Len(intersectionPoints)) = intersectionPoints
          /\ \A k \in (Len(intersectionPoints) + 1)..Len(intersectionPoints') :
                intersectionPoints'[k].y = plane
          /\ Appended =
                IF \/ \A a \in 1..3 : Lt(plane, tri[a].y)
                   \/ \A a \in 1..3 : Lt(tri[a].y, plane)
                THEN 0
                ELSE IF plane = MedianElevation(tri) THEN 3
                ELSE 2]_vars

\* Three points were appended: a vertex on the plane, one below and one above.
C6_Witness ==
    /\ pc = "found"
    /\ Len(intersectionPoints) = 3
    /\ intersectionPoints[1].y = plane
    /\ \E a, b, c \in 1..3 :
          Lt(tri[a].y, plane) /\ tri[b].y = plane /\ Lt(plane, tri[c].y)

----------------------------------------------------------------------------
(* removeDuplicatePoints on a list of points *)

MaxPoints == 3

\* Coordinates around 0 that differ by less than a millionth, and 1.
NearZero == {Rat(-1, 2500000), Zero, Rat(1, 2500000), Rat(3, 5000000), Num(1)}

DedupPoints == { Vector3(x, Zero, z) : x \in NearZero, z \in {Zero, Rat(3, 5000000)} }

RECURSIVE Lists(_, _)
Lists(S, n) ==
    IF n = 0 THEN {<<>>}
    ELSE Lists(S, n - 1) \cup { Append(l, p) : l \in Lists(S, n - 1), p \in S }

InitDedup ==
    /\ pc = "dedup"
    /\ points \in Lists(DedupPoints, MaxPoints)
    /\ uniquePoints = <<>> /\ areas = <<>>
    /\ mesh = NoGeometry /\ slices = 1
    /\ IdleVolume /\ IdleFinder

RemoveDuplicates ==
    /\ pc = "dedup"
    /\ uniquePoints' = RemoveDuplicatePoints(points)
    /\ pc' = "deduped"
    /\ UNCHANGED <<points, areas, volumeVars, finderVars>>

NextDedup == RemoveDuplicates

SpecDedup == InitDedup /\ [][NextDedup]_vars

Tolerance == Rat(1, Pow10(FractionDigits))

\* Both in-plane coordinates of a and b are within the tolerance of each other.
WithinTolerance(a, b) ==
    /\ Leq(MathAbs(Sub(a.x, b.x)), Tolerance)
    /\ Leq(MathAbs(Sub(a.z, b.z)), Tolerance)

\* C7 as stated: the output never holds two points whose x and z are each within
\* 1e-6 of each other.
C7_NoTwoWithinTolerance ==
    pc = "deduped" =>
        \A a, b \in 1..Len(uniquePoints) :
            a # b => ~WithinTolerance(uniquePoints[a], uniquePoints[b])

\* The x and z of a point rounded to six decimals, and whether each is negative:
\* what the six-decimal print of the two coordinates shows.
Rounded(p) ==
    LET r(c) == <<c[1] < 0, (2 * Abs(c[1]) * Pow10(FractionDigits) + c[2]) \div (2 * c[2])>>
    IN  <<r(p.x), r(p.z)>>

\* C7, amended: input points whose x and z print alike to six decimals collapse
\* to one output point, the last of them in the input; the output holds no two
\* points that print alike, and holds a point for every input point.
C7_SameSixDecimalsCollapse ==
    pc = "deduped" =>
        /\ \A a, b \in 1..Len(uniquePoints) :
              a # b => Rounded(uniquePoints[a]) # Rounded(uniquePoints[b])
        /\ \A k \in 1..Len(points) :
              \E a \in 1..Len(uniquePoints) :
                  /\ Rounded(uniquePoints[a]) = Rounded(points[k])
                  /\ \E j \in k..Len(points) :
                        /\ points[j] = uniquePoints[a]
                        /\ \A l \in (j + 1)..Len(points) :
                              Rounded(points[l]) # Rounded(points[k])
        /\ Len(uniquePoints) <= Len(points)

\* Two different points that print alike were given, and one point came out.
C7_Witness ==
    /\ pc = "deduped"
    /\ Len(points) = 2 /\ points[1] # points[2]
    /\ WithinTolerance(points[1], points[2])
    /\ uniquePoints = <<points[2]>>

----------------------------------------------------------------------------
(* calculatePolygonArea on a ring, started at each of its vertices in turn *)

MaxRing == 4

RingPoints ==
    { Vector3(Num(c[1]), Zero, Num(c[2])) :
        c \in { <<0, 0>>, <<2, 0>>, <<2, 2>>, <<0, 2>>, <<1, 1>> } }

Rings == Lists(RingPoints, MaxRing) \ Lists(RingPoints, 2)

Square == << Vector3(Zero, Zero, Zero), Vector3(Num(2), Zero, Zero),
             Vector3(Num(2), Zero, Num(2)), Vector3(Zero, Zero, Num(2)) >>

InitPolygon ==
    /\ pc = "area"
    /\ points \in Rings
    /\ uniquePoints = <<>> /\ areas = <<>>
    /\ mesh = NoGeometry /\ slices = 1
    /\ IdleVolume /\ IdleFinder

\* The area of the ring as it stands; the next call starts one vertex further.
AreaOfRing ==
    /\ pc = "area"
    /\ Len(areas) < Len(points)
    /\ areas' = Append(areas, CalculatePolygonArea(points))
    /\ points' = Append(Tail(points), Head(points))
    /\ UNCHANGED <<pc, uniquePoints, volumeVars, finderVars>>

NextPolygon == AreaOfRing

SpecPolygon == InitPolygon /\ [][NextPolygon]_vars

\* Twice the signed area of the triangle (o, a, b).
Cross(o, a, b) ==
    Sub(Mul(Sub(a.x, o.x), Sub(b.z, o.z)), Mul(Sub(a.z, o.z), Sub(b.x, o.x)))

\* Twice the signed area of a ring as a fan of triangles around its first vertex.
RECURSIVE Fan(_, _)
Fan(ring, k) ==
    IF k >= Len(ring) THEN Zero
    ELSE Add(Cross(ring[1], ring[k], ring[k + 1]), Fan(ring, k + 1))

\* C8: the area of a ring of 3 or more points is the same from whichever vertex
\* the ring is started, is never negative, is half the absolute value of the
\* signed sum, and is 4 for the 2x2 axis-aligned square.
C8_AreaIndependentOfStart ==
    /\ \A k \in 1..Len(areas) :
          /\ areas[k] = areas[1]
          /\ Geq(areas[k], Zero)
          /\ areas[k] = Div(MathAbs(Fan(points, 2)), Num(2))
    /\ (Len(areas) = 4 /\ points = Square) => areas = <<Num(4), Num(4), Num(4), Num(4)>>

\* The square was measured from each of its four vertices.
C8_Witness ==
    Len(areas) = 4 /\ points = Square

====
